---- MODULE Spec2Model ----
(***************************************************************************)
(* Region detection and diagram localisation of the PDF processor:         *)
(*   - PDFProcessor.detect_regions        (app/services/pdf_processor.py)  *)
(*   - detect_diagrams_hybrid, detect_coordinate_grids                     *)
(*                                        (detect_diagrams_hybrid.py)      *)
(*   - AdvancedLayoutDetector, detect_diagrams_yolo                        *)
(*                                        (detect_diagrams_yolo.py)        *)
(*   - the per-question diagram cascade of enriched_batch_process_pdf      *)
(*                                        (test_enriched_batch_processor.py)*)
(*                                                                         *)
(* What OpenCV measures on the pixels (bounding rectangles, contour areas, *)
(* edge counts, Hough lines, blob keypoints) is the input of the model;    *)
(* every decision the Python code takes on those measurements is computed  *)
(* here as the code computes it.                                           *)
(*                                                                         *)
(* Units.  Pixels are integers.  A confidence is kept in TENTHS of a point *)
(* (850 is the code's 85.0): the code rounds every detector confidence to  *)
(* one decimal.  cv2.contourArea is a multiple of 1/2, kept doubled in     *)
(* contour_area2.  Edge densities of the 100x100 density map are kept in   *)
(* hundredths.  Quotients are taken with integer division at the           *)
(* resolution named beside each formula.                                   *)
(***************************************************************************)
EXTENDS Integers, Sequences, FiniteSets, TLC

-----------------------------------------------------------------------------
(* Bounds of the model *)

\* most contours cv2.findContours hands to one detector call
MaxContours == 2
\* calls of detect_regions on the same page image in one behaviour
MaxRuns == 2
\* most pages of a PDF
MaxPages == 2
\* most questions the enrichment replies of one PDF hold together
MaxQuestions == 2

-----------------------------------------------------------------------------
(* Arithmetic helpers *)

Min(a, b) == IF a <= b THEN a ELSE b
Max(a, b) == IF a >= b THEN a ELSE b

\* n/d rounded to the nearest integer (d > 0), what round(x, 1) does to tenths
RoundDiv(n, d) == (2 * n + d) \div (2 * d)

RECURSIVE SeqSum(_)
SeqSum(s) == IF s = <<>> THEN 0 ELSE Head(s) + SeqSum(Tail(s))

RECURSIVE SeqSumSq(_)
SeqSumSq(s) == IF s = <<>> THEN 0 ELSE Head(s) * Head(s) + SeqSumSq(Tail(s))

\* np.diff of a sequence
Diff(s) == [k \in 1..(Len(s) - 1) |-> s[k + 1] - s[k]]

SeqMin(s) == CHOOSE m \in {s[k] : k \in 1..Len(s)} : \A k \in 1..Len(s) : m <= s[k]
SeqMax(s) == CHOOSE m \in {s[k] : k \in 1..Len(s)} : \A k \in 1..Len(s) : m >= s[k]

\* sorted(list(set(s))) for a sequence of integers
RECURSIVE SortedSet(_)
SortedSet(S) ==
    IF S = {} THEN <<>>
    ELSE LET m == CHOOSE x \in S : \A y \in S : x <= y
         IN <<m>> \o SortedSet(S \ {m})

Range(s) == {s[k] : k \in 1..Len(s)}

\* the sequence s without duplicates is not needed; Take is Python's s[:n]
Take(s, n) == SubSeq(s, 1, Min(n, Len(s)))

-----------------------------------------------------------------------------
(* Overlap suppression, shared shape of detect_diagrams_hybrid.py:107-125   *)
(* and detect_diagrams_yolo.py:108-127.  A candidate is a record with      *)
(* bbox = <<x1, y1, x2, y2>>, area, confidence (tenths) and source.        *)

overlap_area(diag, existing) ==
    LET overlap_x == Max(0, Min(diag.bbox[3], existing.bbox[3])
                             - Max(diag.bbox[1], existing.bbox[1]))
        overlap_y == Max(0, Min(diag.bbox[4], existing.bbox[4])
                             - Max(diag.bbox[2], existing.bbox[2]))
    IN  overlap_x * overlap_y

\* overlap_area > diag['area'] * 0.5 against some candidate already kept
is_overlapping(diag, filtered_diagrams) ==
    \E k \in 1..Len(filtered_diagrams) :
        2 * overlap_area(diag, filtered_diagrams[k]) > diag.area

RECURSIVE RemoveOverlapping(_, _)
RemoveOverlapping(diagrams, filtered_diagrams) ==
    IF diagrams = <<>> THEN filtered_diagrams
    ELSE RemoveOverlapping(
             Tail(diagrams),
             IF is_overlapping(Head(diagrams), filtered_diagrams)
             THEN filtered_diagrams
             ELSE Append(filtered_diagrams, Head(diagrams)))

\* Python's sorted(..., key=lambda x: x[key], reverse=True): stable, so
\* candidates with equal keys keep the order they were appended in
RECURSIVE InsertSorted(_, _, _)
InsertSorted(s, e, key) ==
    IF s = <<>> THEN <<e>>
    ELSE IF Head(s)[key] >= e[key]
         THEN <<Head(s)>> \o InsertSorted(Tail(s), e, key)
         ELSE <<e>> \o s

RECURSIVE SortAcc(_, _, _)
SortAcc(rest, acc, key) ==
    IF rest = <<>> THEN acc
    ELSE SortAcc(Tail(rest), InsertSorted(acc, Head(rest), key), key)

sorted_reverse(s, key) == SortAcc(s, <<>>, key)

\* a mutant of hybrid_sort: the ordering of the layout detector
hybrid_sort_by_confidence(diagrams) == sorted_reverse(diagrams, "confidence")

\* detect_diagrams_hybrid.py:104-105: sort by area, larger first
hybrid_sort(diagrams) == sorted_reverse(diagrams, "area")

\* detect_diagrams_yolo.py:110: sort by confidence, higher first
layout_sort(diagrams) == sorted_reverse(diagrams, "confidence")

-----------------------------------------------------------------------------
(* detect_coordinate_grids, detect_diagrams_hybrid.py:137-288              *)
(*                                                                         *)
(* A cluster is one contour of the intersection image with what the code   *)
(* reads from it: its bounding rectangle x, y, w, h, the number of         *)
(* intersection points in it and the sorted unique row (y_coords) and      *)
(* column (x_coords) coordinates of those points.                          *)

\* np.mean(spacing) > bound, for a non-empty spacing
MeanAbove(spacing, bound) == SeqSum(spacing) > bound * Len(spacing)

\* n * n * variance of a spacing sequence: n*Q - S*S with S the sum and Q
\* the sum of squares, so that std/mean = sqrt(SpreadSq)/S
SpreadSq(spacing) ==
    Len(spacing) * SeqSumSq(spacing) - SeqSum(spacing) * SeqSum(spacing)

\* std/mean < 2.0, exactly; the code takes the ratio as 0 when the mean is
\* not positive ("if mean > 0 else 0")
cv_below_2(spacing) ==
    \/ Len(spacing) = 0
    \/ SeqSum(spacing) <= 0
    \/ SpreadSq(spacing) < 4 * SeqSum(spacing) * SeqSum(spacing)

\* std/mean in HUNDREDTHS, rounded down: the largest r with
\* (r/100)^2 * S^2 <= SpreadSq
RECURSIVE cv100From(_, _, _)
cv100From(S, V, r) ==
    IF (r + 1) * (r + 1) * S * S > 10000 * V THEN r ELSE cv100From(S, V, r + 1)

cv100(spacing) ==
    IF Len(spacing) = 0 \/ SeqSum(spacing) <= 0 THEN 0
    ELSE cv100From(SeqSum(spacing), SpreadSq(spacing), 0)

\* a mutant of grid_intersection_candidate: nine points are enough,
\* however few rows or columns they lie on
grid_intersection_candidate_by_points(c) ==
    LET area == c.w * c.h
        y_spacing == Diff(c.y_coords)
        x_spacing == Diff(c.x_coords)
        accepted ==
            /\ area > 1000
            /\ c.points >= 9
            /\ Len(c.y_coords) >= 2 /\ Len(c.x_coords) >= 2
            /\ cv_below_2(y_spacing) /\ cv_below_2(x_spacing)
            /\ MeanAbove(y_spacing, 5) /\ MeanAbove(x_spacing, 5)
            /\ area > 10000
        confidence ==
            Min(Len(c.y_coords) * Len(c.x_coords) * 20
                    + RoundDiv(40 * (100 - cv100(y_spacing) - cv100(x_spacing)), 10), 1000)
    IN  IF accepted
        THEN << [bbox |-> <<c.x, c.y, c.x + c.w, c.y + c.h>>,
                 area |-> area,
                 density |-> c.points,
                 confidence |-> confidence,
                 source |-> "grid_intersection"] >>
        ELSE <<>>

\* Method 1, the body of the loop at lines 171-220 for one contour
grid_intersection_candidate(c) ==
    LET area == c.w * c.h
        y_spacing == Diff(c.y_coords)
        x_spacing == Diff(c.x_coords)
        y_cv == cv100(y_spacing)
        x_cv == cv100(x_spacing)
        accepted ==
            /\ area > 1000
            /\ c.points >= 9
            /\ Len(c.y_coords) >= 3 /\ Len(c.x_coords) >= 3
            /\ cv_below_2(y_spacing) /\ cv_below_2(x_spacing)
            /\ MeanAbove(y_spacing, 5) /\ MeanAbove(x_spacing, 5)
            /\ area > 10000
        \* min(rows*cols*2 + (1 - y_cv - x_cv)*40, 100), rounded to a tenth
        confidence ==
            Min(Len(c.y_coords) * Len(c.x_coords) * 20
                    + RoundDiv(40 * (100 - y_cv - x_cv), 10), 1000)
    IN  IF accepted
        THEN << [bbox |-> <<c.x, c.y, c.x + c.w, c.y + c.h>>,
                 area |-> area,
                 density |-> c.points,
                 confidence |-> confidence,
                 source |-> "grid_intersection"] >>
        ELSE <<>>

RECURSIVE grid_method1(_)
grid_method1(clusters) ==
    IF clusters = <<>> THEN <<>>
    ELSE grid_intersection_candidate(Head(clusters)) \o grid_method1(Tail(clusters))

\* Method 2, lines 223-286; a line is <<x1, y1, x2, y2>>
Abs(a) == IF a < 0 THEN -a ELSE a
is_horizontal(l) == Abs(l[3] - l[1]) > Abs(l[4] - l[2]) * 2
is_vertical(l) == ~is_horizontal(l) /\ Abs(l[4] - l[2]) > Abs(l[3] - l[1]) * 2

grid_method2(lines) ==
    LET horizontal_lines == SelectSeq(lines, is_horizontal)
        vertical_lines == SelectSeq(lines, is_vertical)
        h_positions == SortedSet({(l[2] + l[4]) \div 2 : l \in Range(horizontal_lines)})
        v_positions == SortedSet({(l[1] + l[3]) \div 2 : l \in Range(vertical_lines)})
        h_spacing == Diff(h_positions)
        v_spacing == Diff(v_positions)
        h_cv == cv100(h_spacing)
        v_cv == cv100(v_spacing)
        x1 == SeqMin(v_positions)
        x2 == SeqMax(v_positions)
        y1 == SeqMin(h_positions)
        y2 == SeqMax(h_positions)
        area == (x2 - x1) * (y2 - y1)
        confidence ==
            Min(Len(h_positions) * Len(v_positions) * 10
                    + RoundDiv(50 * (100 - h_cv - v_cv), 10), 1000)
    IN  IF /\ Len(lines) > 6
           /\ Len(horizontal_lines) >= 3 /\ Len(vertical_lines) >= 3
           /\ Len(h_positions) >= 3 /\ Len(v_positions) >= 3
           /\ cv_below_2(h_spacing) /\ cv_below_2(v_spacing)
           /\ MeanAbove(h_spacing, 15) /\ MeanAbove(v_spacing, 15)
           /\ area > 8000
        THEN << [bbox |-> <<x1, y1, x2, y2>>,
                 area |-> area,
                 density |-> Len(horizontal_lines) + Len(vertical_lines),
                 confidence |-> confidence,
                 source |-> "grid_lines"] >>
        ELSE <<>>

\* Method 2 runs only when Method 1 found nothing (line 223)
detect_coordinate_grids(clusters, lines) ==
    LET grid_diagrams == grid_method1(clusters)
    IN  IF grid_diagrams = <<>> THEN grid_method2(lines) ELSE grid_diagrams

-----------------------------------------------------------------------------
(* detect_diagrams_hybrid, detect_diagrams_hybrid.py:11-134                *)
(*                                                                         *)
(* A page image as the detectors see it is a record img with width,        *)
(* height, readable (cv2.imread returned an image), threshold (the 90th    *)
(* percentile of the density map), contours, thresh_contours (the contours *)
(* of the adaptive threshold of detect_with_layout_analysis), clusters,    *)
(* lines and keypoints.  A contour is a record with its bounding rectangle *)
(* x, y, w, h (w, h >= 1), contour_area2, edge_pixels (edge pixels inside  *)
(* the rectangle), cell_density (the density map at its centre) and        *)
(* perimeter.                                                              *)

\* the filters and the confidence of lines 53-99 for one contour
contour_density_candidate(c, width, height, threshold) ==
    LET area == c.w * c.h
        region_density == c.cell_density
        is_large_enough == area > 10000
        is_not_too_large == 100 * area < 35 * width * height
        is_not_full_width == 100 * c.w < 65 * width
        is_not_full_height == 10 * c.h < 6 * height
        is_reasonable == 10 * c.w > 3 * c.h /\ c.w < 4 * c.h
        has_content == 100 * region_density > 65 * threshold
        \* the four scores in hundredths of a point
        density_score ==
            IF threshold <= 0 \/ region_density >= threshold THEN 4000
            ELSE (4000 * region_density) \div threshold
        size_score == IF area >= 100000 THEN 3000 ELSE (3 * area) \div 100
        aspect_score == IF 10 * c.w > 3 * c.h /\ c.w < 3 * c.h THEN 2000 ELSE 1000
        edge_score ==
            IF 2550 * c.edge_pixels >= area THEN 1000
            ELSE (2550000 * c.edge_pixels) \div area
        confidence == density_score + size_score + aspect_score + edge_score
    IN  IF /\ is_large_enough /\ is_not_too_large /\ is_not_full_width
           /\ is_not_full_height /\ is_reasonable /\ has_content
        THEN << [bbox |-> <<c.x, c.y, c.x + c.w, c.y + c.h>>,
                 area |-> area,
                 density |-> region_density,
                 confidence |-> RoundDiv(Min(confidence, 10000), 10),
                 source |-> "contour_density"] >>
        ELSE <<>>

RECURSIVE contour_density_candidates(_, _, _, _)
contour_density_candidates(contours, width, height, threshold) ==
    IF contours = <<>> THEN <<>>
    ELSE contour_density_candidate(Head(contours), width, height, threshold)
             \o contour_density_candidates(Tail(contours), width, height, threshold)

\* the candidate list before the overlap pass: contours, then grids (line 102)
hybrid_raw(img) ==
    contour_density_candidates(img.contours, img.width, img.height, img.threshold)
        \o detect_coordinate_grids(img.clusters, img.lines)

\* lines 104-134: what detect_diagrams_hybrid returns for a readable image
detect_diagrams_hybrid(img) == RemoveOverlapping(hybrid_sort(hybrid_raw(img)), <<>>)

-----------------------------------------------------------------------------
(* AdvancedLayoutDetector and detect_diagrams_yolo, detect_diagrams_yolo.py *)

\* lines 52-77 for one contour
morphological_candidate(c, width, height) ==
    LET area == c.w * c.h
        \* 50 + fill_ratio*30 + min(area/50000, 1)*20 in hundredths
        confidence ==
            5000 + (1500 * c.contour_area2) \div area
                 + (IF area >= 50000 THEN 2000 ELSE (4 * area) \div 100)
    IN  IF /\ 15000 < area /\ 10 * area < 4 * width * height
           /\ 5 * c.w > c.h /\ c.w < 5 * c.h
           /\ 10 * c.w < 7 * width /\ 10 * c.h < 7 * height
        THEN << [bbox |-> <<c.x, c.y, c.x + c.w, c.y + c.h>>,
                 area |-> area,
                 confidence |-> RoundDiv(Min(confidence, 9500), 10),
                 source |-> "morphological_analysis"] >>
        ELSE <<>>

RECURSIVE morphological_candidates(_, _, _)
morphological_candidates(contours, width, height) ==
    IF contours = <<>> THEN <<>>
    ELSE morphological_candidate(Head(contours), width, height)
             \o morphological_candidates(Tail(contours), width, height)

\* lines 79-106; a keypoint is <<x, y>>, its coordinates already truncated
blob_candidate(keypoints) ==
    LET xs == [k \in 1..Len(keypoints) |-> keypoints[k][1]]
        ys == [k \in 1..Len(keypoints) |-> keypoints[k][2]]
        x1 == SeqMin(xs)
        x2 == SeqMax(xs)
        y1 == SeqMin(ys)
        y2 == SeqMax(ys)
        area == (x2 - x1) * (y2 - y1)
    IN  IF Len(keypoints) > 5 /\ area > 20000
        THEN << [bbox |-> <<x1, y1, x2, y2>>,
                 area |-> area,
                 confidence |-> 750,
                 source |-> "blob_detection"] >>
        ELSE <<>>

layout_raw(img) ==
    morphological_candidates(img.contours, img.width, img.height)
        \o blob_candidate(img.keypoints)

\* the mutant of detect_diagrams: the candidates are visited larger first
detect_diagrams_by_area(img) ==
    IF ~img.readable THEN <<>>
    ELSE RemoveOverlapping(hybrid_sort(layout_raw(img)), <<>>)

\* lines 19-139: an unreadable image returns [] (line 33-34)
detect_diagrams(img) ==
    IF ~img.readable THEN <<>>
    ELSE RemoveOverlapping(layout_sort(layout_raw(img)), <<>>)

\* lines 167-185 for one contour; circularity = 4*pi*area/perimeter^2 is
\* taken in thousandths with pi = 3.142
layout_analysis_candidate(c) ==
    LET area == c.w * c.h
        circularity ==
            IF c.perimeter > 0
            THEN (1257 * area) \div Max(1, (c.perimeter * c.perimeter) \div 10)
            ELSE 0
        confidence == Min(5000 + 5 * circularity, 8500)
    IN  IF area > 15000 /\ area < 400000 /\ 5 * c.w > c.h /\ c.w < 5 * c.h
        THEN << [bbox |-> <<c.x, c.y, c.x + c.w, c.y + c.h>>,
                 area |-> area,
                 confidence |-> RoundDiv(confidence, 10),
                 source |-> "layout_analysis"] >>
        ELSE <<>>

RECURSIVE layout_analysis_candidates(_)
layout_analysis_candidates(contours) ==
    IF contours = <<>> THEN <<>>
    ELSE layout_analysis_candidate(Head(contours))
             \o layout_analysis_candidates(Tail(contours))

\* lines 141-194: cv2.cvtColor raises on an unreadable image, caught at 192
detect_with_layout_analysis(img) ==
    IF ~img.readable THEN <<>>
    ELSE Take(sorted_reverse(layout_analysis_candidates(img.thresh_contours), "area"), 5)

\* lines 197-213
detect_diagrams_yolo(img) ==
    IF detect_diagrams(img) = <<>>
    THEN detect_with_layout_analysis(img)
    ELSE detect_diagrams(img)

-----------------------------------------------------------------------------
(* PDFProcessor.detect_regions, app/services/pdf_processor.py:130-235      *)

\* line 176: the noise floor
is_noise(c) == c.w * c.h < 2000

\* lines 189-194: area > 10000, 0.2 < aspect_ratio < 4.0,
\* edge_density > 0.005, contour_area / area < 0.95
is_diagram_region(c) ==
    LET area == c.w * c.h
    IN  /\ area > 10000
        /\ 5 * c.w > c.h /\ c.w < 4 * c.h
        /\ 200 * c.edge_pixels > area
        /\ 20 * c.contour_area2 < 38 * area

\* line 197: aspect_ratio > 3.0
is_text_region(c) == c.w > 3 * c.h

\* a mutant of classify: the text test is taken before the diagram test
classify_text_first(c) ==
    IF is_noise(c) THEN {}
    ELSE IF is_text_region(c) THEN {"text_blocks"}
    ELSE IF is_diagram_region(c) THEN {"diagram_blocks"}
    ELSE {"mixed_blocks"}

\* a mutant of classify: the text test is an "if", not an "elif"
classify_without_elif(c) ==
    IF is_noise(c) THEN {}
    ELSE IF is_diagram_region(c)
         THEN {"diagram_blocks"} \cup (IF is_text_region(c) THEN {"text_blocks"} ELSE {})
    ELSE IF is_text_region(c) THEN {"text_blocks"}
    ELSE {"mixed_blocks"}

\* lines 176-200: the lists one contour is appended to (none below the
\* noise floor, else the first of diagram, text, mixed whose test passes)
classify(c) ==
    IF is_noise(c) THEN {}
    ELSE IF is_diagram_region(c) THEN {"diagram_blocks"}
    ELSE IF is_text_region(c) THEN {"text_blocks"}
    ELSE {"mixed_blocks"}

\* lines 180-184; the float aspect_ratio w / h is kept as the pair <<w, h>>
region_info(c) ==
    [bbox |-> [x |-> c.x, y |-> c.y, width |-> c.w, height |-> c.h],
     area |-> c.w * c.h,
     aspect_ratio |-> <<c.w, c.h>>]

\* a mutant of hough_region: the area is taken before the envelope is clamped
hough_region_area_unclamped(lines, width, height) ==
    LET xs == [k \in 1..(2 * Len(lines)) |->
                  IF k % 2 = 1 THEN lines[(k + 1) \div 2][1] ELSE lines[k \div 2][3]]
        ys == [k \in 1..(2 * Len(lines)) |->
                  IF k % 2 = 1 THEN lines[(k + 1) \div 2][2] ELSE lines[k \div 2][4]]
        min_x == Max(SeqMin(xs) - 40, 0)
        max_x == Min(SeqMax(xs) + 40, width)
        min_y == Max(SeqMin(ys) - 40, 0)
        max_y == Min(SeqMax(ys) + 40, height)
        w == max_x - min_x
        h == max_y - min_y
        area == (SeqMax(xs) - SeqMin(xs) + 80) * (SeqMax(ys) - SeqMin(ys) + 80)
    IN  IF Len(lines) > 5 /\ area > 8000 /\ w > 100 /\ h > 100
        THEN << [bbox |-> [x |-> min_x, y |-> min_y, width |-> w, height |-> h],
                 area |-> area,
                 aspect_ratio |-> <<w, h>>,
                 detected_via |-> "hough"] >>
        ELSE <<>>

\* lines 212-229: the region the Hough fallback appends, if any
hough_region(lines, width, height) ==
    LET xs == [k \in 1..(2 * Len(lines)) |->
                  IF k % 2 = 1 THEN lines[(k + 1) \div 2][1] ELSE lines[k \div 2][3]]
        ys == [k \in 1..(2 * Len(lines)) |->
                  IF k % 2 = 1 THEN lines[(k + 1) \div 2][2] ELSE lines[k \div 2][4]]
        min_x == Max(SeqMin(xs) - 40, 0)
        max_x == Min(SeqMax(xs) + 40, width)
        min_y == Max(SeqMin(ys) - 40, 0)
        max_y == Min(SeqMax(ys) + 40, height)
        w == max_x - min_x
        h == max_y - min_y
        area == w * h
    IN  IF Len(lines) > 5 /\ area > 8000 /\ w > 100 /\ h > 100
        THEN << [bbox |-> [x |-> min_x, y |-> min_y, width |-> w, height |-> h],
                 area |-> area,
                 aspect_ratio |-> <<w, h>>,
                 detected_via |-> "hough"] >>
        ELSE <<>>

-----------------------------------------------------------------------------
(* Inputs: what OpenCV can hand to the detectors on a page                 *)

Contour(x, y, w, h, contour_area2, edge_pixels, cell_density, perimeter) ==
    [x |-> x, y |-> y, w |-> w, h |-> h, contour_area2 |-> contour_area2,
     edge_pixels |-> edge_pixels, cell_density |-> cell_density,
     perimeter |-> perimeter]

\* bounding rectangles that are disjoint, nested and partly overlapping,
\* below the noise floor, wide like a text line, and larger than a detector
\* accepts; two fillings and densities of the same rectangle
ContourPalette ==
    { Contour(0, 0, 250, 200, 90000, 3000, 200, 900),
      Contour(0, 0, 250, 200, 20000, 3000, 70, 2000),
      Contour(150, 0, 150, 200, 54000, 2000, 200, 700),
      Contour(150, 0, 150, 200, 18000, 2000, 70, 1600),
      Contour(20, 20, 120, 150, 30000, 1000, 200, 540),
      Contour(400, 600, 400, 300, 100000, 6000, 200, 1400),
      Contour(0, 0, 700, 900, 400000, 9000, 200, 3200),
      Contour(500, 100, 40, 40, 2000, 100, 200, 160),
      Contour(100, 1000, 600, 40, 40000, 2000, 200, 1280),
      Contour(600, 100, 300, 90, 20000, 500, 200, 780),
      Contour(600, 100, 300, 90, 52380, 500, 200, 780),
      Contour(600, 300, 100, 120, 9000, 10, 30, 440) }

RECURSIVE SeqsUpTo(_, _)
SeqsUpTo(S, n) ==
    IF n = 0 THEN {<<>>}
    ELSE SeqsUpTo(S, n - 1)
             \cup {Append(s, e) : s \in {t \in SeqsUpTo(S, n - 1) : Len(t) = n - 1}, e \in S}

ContourLists == SeqsUpTo(ContourPalette, MaxContours)

Cluster(x, y, w, h, points, y_coords, x_coords) ==
    [x |-> x, y |-> y, w |-> w, h |-> h, points |-> points,
     y_coords |-> y_coords, x_coords |-> x_coords]

\* horizontal lines at the rows ys and vertical lines at the columns xs,
\* each spanning the whole grid
GridLines(xs, ys) ==
    [k \in 1..Len(ys) |-> <<SeqMin(xs), ys[k], SeqMax(xs), ys[k]>>]
        \o [k \in 1..Len(xs) |-> <<xs[k], SeqMin(ys), xs[k], SeqMax(ys)>>]

\* what the grid detector gets: intersection clusters and Hough lines
GridScenes ==
    { [clusters |-> <<>>, lines |-> <<>>],
      \* a regular 5x5 grid of intersections inside the 250x200 rectangle
      [clusters |-> << Cluster(10, 10, 181, 181, 25,
                               <<0, 45, 90, 135, 180>>, <<0, 45, 90, 135, 180>>) >>,
       lines |-> <<>>],
      \* a 3x3 cluster with very uneven spacing
      [clusters |-> << Cluster(500, 1100, 161, 161, 9, <<0, 10, 160>>, <<0, 10, 160>>) >>,
       lines |-> <<>>],
      \* two rows only, and a regular 4x4 grid of lines
      [clusters |-> << Cluster(500, 1000, 201, 51, 10, <<0, 50>>, <<0, 50, 100, 150, 200>>) >>,
       lines |-> GridLines(<<500, 550, 600, 650>>, <<1000, 1050, 1100, 1150>>)],
      \* six lines are not enough for Method 2
      [clusters |-> <<>>,
       lines |-> GridLines(<<500, 550, 600>>, <<1000, 1050, 1100>>)] }

\* what cv2.HoughLinesP returns to detect_regions (<<>> stands for None)
HoughScenes ==
    { <<>>,
      GridLines(<<500, 600>>, <<1000, 1100, 1200>>),
      GridLines(<<500, 600, 700>>, <<1000, 1100, 1200>>),
      GridLines(<<10, 110, 210>>, <<1200, 1300, 1390>>),
      GridLines(<<500, 501, 502, 503, 504, 505>>, <<1000, 1100>>) }

\* blob keypoints of SimpleBlobDetector
KeypointScenes ==
    { <<>>,
      << <<100, 100>>, <<400, 300>>, <<200, 150>>, <<300, 200>>, <<150, 250>>,
         <<350, 120>> >>,
      << <<100, 100>>, <<400, 300>>, <<200, 150>>, <<300, 200>>, <<150, 250>> >>,
      << <<100, 100>>, <<100, 900>>, <<100, 150>>, <<100, 200>>, <<100, 250>>,
         <<100, 300>> >> }

\* 90th percentile of the density map
Thresholds == {0, 100}

\* page sizes (width, height)
PageSizes == {<<1000, 1400>>, <<1200, 1600>>}

Image(size, readable, threshold, contours, thresh_contours, scene, lines, keypoints) ==
    [width |-> size[1], height |-> size[2], readable |-> readable,
     threshold |-> threshold, contours |-> contours,
     thresh_contours |-> thresh_contours, clusters |-> scene.clusters,
     lines |-> lines, keypoints |-> keypoints]

NoScene == [clusters |-> <<>>, lines |-> <<>>]

-----------------------------------------------------------------------------
(* State *)

VARIABLES
    call,       \* the function under call
    img,        \* the page image handed to the detectors
    pc,         \* the position inside the function under call
    result,     \* the list a detector returned
    regions,    \* the dict detect_regions is filling
    ci,         \* index of the next contour in the loop of detect_regions
    runs,       \* the dicts returned by the calls of detect_regions so far
    \* enriched_batch_process_pdf
    batch_size,         \* its argument
    total_pages,        \* len(page_images)
    batch_start,        \* the outer loop variable
    idx,                \* the inner loop variable: page of the batch
    pending,            \* questions of the current page still to process
    asked,              \* questions processed so far in the document
    question,           \* the question under the cascade
    needs_diagram,      \* the need check of the current question
    diagrams,           \* the diagram list of the current question
    tiers,              \* the tiers run for the current question, in order,
                        \* each with the length of diagrams when it began
                        \* and whether an exception was raised in it
    reply,              \* what the localization call of Tier 3 gave
    files,              \* the PNG files of the output directory
    enriched_questions, \* the result list
    total_api_calls,
    last_event,         \* "start", "sleep", "enrich", "enrich_failed" or "locate"
    raised,             \* the exception that reached the caller, or "none"
    output_written,     \* enriched_questions.json has been written
    page_text,          \* process_page: the text of the page so far
    gemini_ocr,         \* process_page: self.gemini_ocr is set
    ocr_log             \* process_page: the text sources tried, in order

dvars == <<call, img, pc, result, regions, ci, runs>>

dvars_but_pc_img == <<call, result, regions, ci, runs>>

cvars == <<batch_size, total_pages, batch_start, idx, pending, asked, question,
           needs_diagram, diagrams, tiers, reply, files, enriched_questions,
           total_api_calls, last_event, raised, output_written>>

\* the variables of the text extraction of PDFProcessor.process_page
ovars == <<page_text, gemini_ocr, ocr_log>>

vars == <<dvars, cvars, ovars>>

\* a text is known by where it comes from and by its length, the one thing
\* process_page looks at
Text(from, length) == [from |-> from, len |-> length]

NoText == Text("none", 0)

\* the variables of process_page while it is not running
OcrIdle ==
    /\ page_text = NoText
    /\ gemini_ocr = FALSE
    /\ ocr_log = <<>>

EmptyRegions == [text_blocks |-> <<>>, diagram_blocks |-> <<>>, mixed_blocks |-> <<>>]

DetectorCalls ==
    {"detect_diagrams_hybrid", "detect_diagrams", "detect_with_layout_analysis",
     "detect_diagrams_yolo"}

-----------------------------------------------------------------------------
(* SpecDetect: one detector function called on one page image              *)

NoQuestion ==
    [has_diagram_keyword |-> FALSE, question_type |-> "none",
     requires_diagram |-> FALSE, diagram_bbox |-> <<>>, has_content |-> FALSE]

\* the variables of enriched_batch_process_pdf while it is not running
CascadeIdle ==
    /\ batch_size = 1
    /\ total_pages = 0
    /\ batch_start = 0
    /\ idx = 0
    /\ pending = 0
    /\ asked = 0
    /\ question = NoQuestion
    /\ needs_diagram = FALSE
    /\ diagrams = <<>>
    /\ tiers = <<>>
    /\ reply = "none"
    /\ files = <<>>
    /\ enriched_questions = <<>>
    /\ total_api_calls = 0
    /\ last_event = "start"
    /\ raised = "none"
    /\ output_written = FALSE

DetectInputs(c, i) ==
    \/ /\ c = "detect_diagrams_hybrid"
       /\ \E size \in PageSizes, t \in Thresholds, cs \in ContourLists, g \in GridScenes :
              i = Image(size, TRUE, t, cs, <<>>, g, g.lines, <<>>)
    \/ /\ c = "detect_diagrams"
       /\ \E size \in PageSizes, r \in BOOLEAN, cs \in ContourLists, k \in KeypointScenes :
              i = Image(size, r, 0, cs, <<>>, NoScene, <<>>, k)
    \/ /\ c = "detect_with_layout_analysis"
       /\ \E size \in PageSizes, r \in BOOLEAN, cs \in ContourLists :
              i = Image(size, r, 0, <<>>, cs, NoScene, <<>>, <<>>)
    \/ /\ c = "detect_diagrams_yolo"
       /\ \E size \in PageSizes, cs \in ContourLists, k \in KeypointScenes :
              i = Image(size, TRUE, 0, cs, cs, NoScene, <<>>, k)
    \/ /\ c = "detect_regions"
       /\ \E size \in PageSizes, cs \in ContourLists, l \in HoughScenes :
              i = Image(size, TRUE, 0, cs, <<>>, NoScene, l, <<>>)

DetectInit ==
    /\ call \in DetectorCalls \cup {"detect_regions"}
    /\ DetectInputs(call, img)
    /\ pc = "start"
    /\ result = <<>>
    /\ regions = EmptyRegions
    /\ ci = 1
    /\ runs = <<>>
    /\ CascadeIdle
    /\ OcrIdle

\* detect_diagrams_hybrid.py:11-134.  detect_coordinate_grids (line 48)
\* makes the directory output/debug and writes its debug images there
\* (lines 142-143 and 159-164); neither function has a try block, so what
\* the grid detector raises leaves detect_diagrams_hybrid with it.
CallDetectDiagramsHybrid ==
    /\ pc = "start" /\ call = "detect_diagrams_hybrid"
    /\ \E grid_raises \in BOOLEAN :
          IF grid_raises
          THEN /\ raised' = "detect_coordinate_grids"
               /\ pc' = "raised"
               /\ UNCHANGED result
          ELSE /\ result' = detect_diagrams_hybrid(img)
               /\ pc' = "returned"
               /\ UNCHANGED raised
    /\ UNCHANGED <<ovars, call, img, regions, ci, runs, batch_size, total_pages, batch_start,
                   idx, pending, asked, question, needs_diagram, diagrams, tiers,
                   reply, files, enriched_questions, total_api_calls, last_event,
                   output_written>>

CallDetectDiagrams ==
    /\ pc = "start" /\ call = "detect_diagrams"
    /\ result' = detect_diagrams(img)
    /\ pc' = "returned"
    /\ UNCHANGED <<ovars, cvars, call, img, regions, ci, runs>>

CallDetectWithLayoutAnalysis ==
    /\ pc = "start" /\ call = "detect_with_layout_analysis"
    /\ result' = detect_with_layout_analysis(img)
    /\ pc' = "returned"
    /\ UNCHANGED <<ovars, cvars, call, img, regions, ci, runs>>

CallDetectDiagramsYolo ==
    /\ pc = "start" /\ call = "detect_diagrams_yolo"
    /\ result' = detect_diagrams_yolo(img)
    /\ pc' = "returned"
    /\ UNCHANGED <<ovars, cvars, call, img, regions, ci, runs>>

\* pdf_processor.py:140-163: a call begins with three empty lists
DetectRegionsBegin ==
    /\ pc = "start" /\ call = "detect_regions"
    /\ Len(runs) < MaxRuns
    /\ regions' = EmptyRegions
    /\ ci' = 1
    /\ pc' = "classify"
    /\ UNCHANGED <<ovars, cvars, call, img, result, runs>>

\* pdf_processor.py:166-200: one iteration of the loop over the contours
DetectRegionsContour ==
    /\ pc = "classify"
    /\ ci <= Len(img.contours)
    /\ regions' =
         [name \in DOMAIN regions |->
             IF name \in classify(img.contours[ci])
             THEN Append(regions[name], region_info(img.contours[ci]))
             ELSE regions[name]]
    /\ ci' = ci + 1
    /\ UNCHANGED <<ovars, cvars, call, img, pc, result, runs>>

\* pdf_processor.py:202-235: the Hough fallback, then the return
DetectRegionsReturn ==
    /\ pc = "classify"
    /\ ci > Len(img.contours)
    /\ regions' =
         IF regions.diagram_blocks = <<>>
         THEN [regions EXCEPT !.diagram_blocks =
                  hough_region(img.lines, img.width, img.height)]
         ELSE regions
    /\ runs' = Append(runs, regions')
    /\ pc' = "start"
    /\ UNCHANGED <<ovars, cvars, call, img, result, ci>>

DetectNext ==
    \/ CallDetectDiagramsHybrid
    \/ CallDetectDiagrams
    \/ CallDetectWithLayoutAnalysis
    \/ CallDetectDiagramsYolo
    \/ DetectRegionsBegin
    \/ DetectRegionsContour
    \/ DetectRegionsReturn

SpecDetect == DetectInit /\ [][DetectNext]_vars

-----------------------------------------------------------------------------
(* enriched_batch_process_pdf, test_enriched_batch_processor.py:26-526      *)
(*                                                                         *)
(* A file of the output directory is named <<page, kind>>: kind "page" is  *)
(* page_{n}.png and kind k is page_{n}_diagram_{k}.png.  files maps the    *)
(* names of the files that exist to what was written last: the question   *)
(* that wrote it (owner, its number in the document) and the rectangle of  *)
(* the page that was cropped.  A diagram record keeps the fields of the    *)
(* code's dict that the cascade decides (filename, page_number, source,    *)
(* confidence, area); file_size is not modelled.                           *)

DiagramKinds ==
    <<"ai", "ai_2", "ai_3", "yolo", "yolo_2", "yolo_3",
      "gemini", "gemini_fallback", "fallback">>

\* f"_{idx+1}" if idx > 0 else "" appended to the tier's name (lines 165, 208)
Suffixed(kind, k) ==
    IF k = 1 THEN kind
    ELSE IF kind = "ai" THEN (IF k = 2 THEN "ai_2" ELSE "ai_3")
    ELSE (IF k = 2 THEN "yolo_2" ELSE "yolo_3")

\* page_snapshot.exists()
snapshot_exists(fs, page) == <<page, "page">> \in DOMAIN fs

\* fs after the files of the function written (name -> content) are saved
SaveAll(fs, written) ==
    [n \in DOMAIN fs \cup DOMAIN written |->
        IF n \in DOMAIN written THEN written[n] ELSE fs[n]]

\* lines 156-161 and 199-204: 40 px around the bbox, inside the image
pad_crop(bbox, width, height) ==
    <<Max(0, bbox[1] - 40), Max(0, bbox[2] - 40),
      Min(width, bbox[3] + 40), Min(height, bbox[4] + 40)>>

\* lines 245-257 and 319-329: 50 px around the model's bbox, then
\* w = min(img.width - x, w + 2*padding), h likewise; the crop box
bbox_crop(bbox, width, height) ==
    LET x == Max(0, bbox.x - 50)
        y == Max(0, bbox.y - 50)
        w == Min(width - x, bbox.width + 100)
        h == Min(height - y, bbox.height + 100)
    IN  <<x, y, x + w, y + h>>

\* PIL raises on a crop box with no pixels (in crop or in save)
crop_raises(box) == box[3] <= box[1] \/ box[4] <= box[2]

\* a mutant of heuristic_crop: the lower 60% of the page, the fallback of
\* the detect_diagrams_hybrid.py script (lines 325-328)
heuristic_crop_lower_part(width, height) ==
    <<0, (height * 4) \div 10, width, height>>

\* lines 350-352 and 374-376: crop_height = int(height * 0.5),
\* crop_start = int(height * 0.25), the full width
heuristic_crop(width, height) ==
    <<0, height \div 4, width, height \div 4 + height \div 2>>

\* a mutant of extract_enriched_batch_quiz: the handler of line 272 lets
\* the exception go
extract_enriched_batch_quiz_reraising(ok) == IF ok THEN "results" ELSE "raise"

\* gemini_ocr_enriched.py:50-276: the whole body is in one try block; a
\* reply that was parsed gives the map of results, and the call that
\* raised, or whose reply none of the three parsers of lines 235-257
\* accepts, gives the empty map (lines 272-276)
extract_enriched_batch_quiz(ok) == IF ok THEN "results" ELSE "empty"

\* lines 135-139
need_check(q) ==
    \/ q.has_diagram_keyword
    \/ q.question_type = "diagram_based"
    \/ q.requires_diagram

\* a mutant of tier2_guard: Tier 2 runs whatever Tier 1 left
tier2_guard_ignoring_diagrams(ds, needs) == needs

\* line 188: if not diagrams and needs_diagram
tier2_guard(ds, needs) == ds = <<>> /\ needs

\* line 277-279: if needs_diagram and not diagrams, and the snapshot exists
tier3_guard(ds, needs, fs, page) == needs /\ ds = <<>> /\ snapshot_exists(fs, page)

\* a mutant of after_localization: the handler of line 368 only logs
after_localization_log_only(outcome, box) ==
    IF outcome = "bbox" /\ ~crop_raises(box) THEN "append"
    ELSE IF outcome = "null_bbox" THEN "tier4"
    ELSE "append"

\* where the try block of lines 280-390 goes after the localization call:
\* a usable bbox is cropped and the question is done; a null bbox (line
\* 347) and every exception (line 368) lead to the heuristic crop
after_localization(outcome, box) ==
    IF outcome = "bbox" /\ ~crop_raises(box) THEN "append" ELSE "tier4"

\* a mutant of high_conf_detected: 85 is enough
high_conf_detected_from_85(detected) == SelectSeq(detected, LAMBDA d : d.confidence >= 850)

\* line 153: the detections Tier 1 keeps
high_conf_detected(detected) == SelectSeq(detected, LAMBDA d : d.confidence > 850)

\* the records and files of the first n of the candidates cands (lines
\* 155-180 and 198-222)
DetectionRecords(cands, n, kind, source, page) ==
    [k \in 1..n |->
        [filename |-> <<page, Suffixed(kind, k)>>,
         page_number |-> page,
         source |-> source,
         confidence |-> cands[k].confidence,
         area |-> cands[k].area]]

DetectionFiles(cands, n, kind, page, qid, width, height) ==
    [name \in {<<page, Suffixed(kind, k)>> : k \in 1..n} |->
        LET k == CHOOSE j \in 1..n : name = <<page, Suffixed(kind, j)>>
        IN  [owner |-> qid, crop |-> pad_crop(cands[k].bbox, width, height)]]

\* lines 229-235: a record without source and confidence for each diagram
\* file of the page, in the order of DiagramKinds
GlobRecords(fs, page) ==
    LET existing == SelectSeq(DiagramKinds, LAMBDA kind : <<page, kind>> \in DOMAIN fs)
    IN  [k \in 1..Len(existing) |->
            [filename |-> <<page, existing[k]>>, page_number |-> page]]

\* the questions an enrichment reply can hold
Question(keyword, type, flag, bbox, content) ==
    [has_diagram_keyword |-> keyword, question_type |-> type,
     requires_diagram |-> flag, diagram_bbox |-> bbox, has_content |-> content]

Bbox(x, y, w, h) == [x |-> x, y |-> y, width |-> w, height |-> h]

\* bounding boxes the model can name: inside the page and beyond its
\* right edge
ModelBboxes == {Bbox(100, 200, 300, 250), Bbox(5000, 100, 100, 100)}

\* the confidence of a localization reply, in tenths
ReplyConfidence(bbox) == IF bbox.x = 100 THEN 900 ELSE 600

Questions ==
    { Question(FALSE, "calculation", FALSE, <<>>, TRUE),
      Question(TRUE, "calculation", FALSE, <<>>, TRUE),
      Question(FALSE, "diagram_based", FALSE, <<>>, TRUE),
      Question(FALSE, "calculation", TRUE, <<Bbox(100, 200, 300, 250)>>, TRUE),
      Question(TRUE, "calculation", FALSE, <<Bbox(5000, 100, 100, 100)>>, TRUE),
      Question(FALSE, "calculation", FALSE, <<Bbox(20, 30, 300, 250)>>, TRUE),
      Question(FALSE, "calculation", FALSE, <<>>, FALSE) }

\* the pages of a PDF as the detectors see their snapshots; the sides of
\* the blank page are not multiples of four
BlankPage == Image(<<1001, 1403>>, TRUE, 0, <<>>, <<>>, NoScene, <<>>, <<>>)

CascadePages ==
    { BlankPage,
      \* four separate figures, each above 85 in hybrid detection
      Image(<<1000, 1400>>, TRUE, 100,
            << Contour(0, 0, 300, 250, 60000, 4000, 200, 1100),
               Contour(400, 0, 300, 250, 60000, 4000, 200, 1100),
               Contour(0, 400, 300, 250, 60000, 4000, 200, 1100),
               Contour(400, 400, 300, 250, 60000, 4000, 200, 1100) >>,
            <<>>, NoScene, <<>>, <<>>),
      \* a regular grid of confidence 90 inside a larger figure of lower
      \* confidence, a figure at exactly 85.0 in hybrid detection, and a
      \* filled rectangle of low edge density that only the morphological
      \* detector accepts (confidence 88.0)
      Image(<<1000, 1400>>, TRUE, 100,
            << Contour(0, 0, 250, 200, 20000, 3000, 70, 2000),
               Contour(400, 600, 250, 200, 90000, 3000, 200, 900),
               Contour(700, 1000, 200, 100, 40000, 1000, 30, 600) >>,
            <<>>,
            [clusters |-> << Cluster(10, 10, 181, 181, 25,
                                     <<0, 45, 90, 135, 180>>, <<0, 45, 90, 135, 180>>) >>,
             lines |-> <<>>],
            <<>>, <<>>),
      \* nothing but for the adaptive threshold of the layout analysis
      Image(<<1000, 1400>>, TRUE, 0, <<>>,
            << Contour(20, 20, 120, 150, 30000, 1000, 200, 540) >>,
            NoScene, <<>>, <<>>) }

\* the page under processing and the number of the question under the cascade
actual_page_num == batch_start + idx + 1
qid == asked + 1

\* the variables of the detector calls while the batch processor runs
DetectIdle ==
    /\ result = <<>>
    /\ regions = EmptyRegions
    /\ ci = 1
    /\ runs = <<>>

\* a run of enriched_batch_process_pdf, or of PDFProcessor.process_pdf
\* (which has no batch_size), on one PDF
CascadeInit ==
    /\ call \in {"enriched_batch_process_pdf", "process_pdf"}
    /\ pc = "pdf_to_images"
    /\ img = BlankPage
    /\ DetectIdle
    /\ batch_size \in {1, 2}
    /\ (call = "process_pdf" => batch_size = 1)
    /\ total_pages = 0
    /\ batch_start = 0
    /\ idx = 0
    /\ pending = 0
    /\ asked = 0
    /\ question = NoQuestion
    /\ needs_diagram = FALSE
    /\ diagrams = <<>>
    /\ tiers = <<>>
    /\ reply = "none"
    /\ files = <<>>
    /\ enriched_questions = <<>>
    /\ total_api_calls = 0
    /\ last_event = "start"
    /\ raised = "none"
    /\ output_written = FALSE
    /\ OcrIdle

\* line 67 and pdf_processor.py:27-67: fitz.open raises on a PDF it cannot
\* open; the save of each page snapshot may fail, which is only logged
\* (pdf_processor.py:59-63)
PdfToImages ==
    /\ pc = "pdf_to_images"
    /\ \E opens \in BOOLEAN, n \in 0..MaxPages :
         \E saved \in SUBSET (1..n) :
            IF opens
            THEN /\ total_pages' = n
                 /\ files' = [name \in {<<page, "page">> : page \in saved} |->
                                 [owner |-> 0, crop |-> <<0, 0, 0, 0>>]]
                 /\ pc' = IF call = "process_pdf" THEN "process_page" ELSE "batch"
                 /\ UNCHANGED raised
            ELSE /\ n = 0
                 /\ raised' = "pdf_open"
                 /\ pc' = "raised"
                 /\ UNCHANGED <<ovars, total_pages, files>>
    /\ UNCHANGED <<ovars, dvars_but_pc_img, img, batch_size, batch_start, idx, pending, asked,
                   question, needs_diagram, diagrams, tiers, reply,
                   enriched_questions, total_api_calls, last_event, output_written>>

\* lines 79-90: the head of the loop over the batches, with its sleep
NextBatch ==
    /\ pc = "batch"
    /\ batch_start < total_pages
    /\ last_event' = IF batch_start > 0 THEN "sleep" ELSE last_event
    /\ idx' = 0
    /\ pc' = "page"
    /\ UNCHANGED <<ovars, dvars_but_pc_img, img, batch_size, total_pages, batch_start, pending,
                   asked, question, needs_diagram, diagrams, tiers, reply, files,
                   enriched_questions, total_api_calls, raised, output_written>>

\* lines 93-112 and 433-434, with extract_enriched_batch_quiz
\* (gemini_ocr_enriched.py:235-276).  img is what the snapshot of the page
\* shows; nothing looks at the snapshot of a page without questions.  A
\* call that failed is told from a reply without questions by last_event.
EnrichPage ==
    /\ pc = "page"
    /\ idx < Min(batch_start + batch_size, total_pages) - batch_start
    /\ \E ok \in BOOLEAN, n \in 0..(MaxQuestions - asked), page \in CascadePages :
          /\ (~ok => n = 0)
          /\ (n = 0 => page = BlankPage)
          /\ IF extract_enriched_batch_quiz(ok) = "raise"
             THEN /\ raised' = "enrichment"
                  /\ pc' = "raised"
                  /\ UNCHANGED <<ovars, pending, img>>
             ELSE /\ pending' = n
                  /\ img' = page
                  /\ pc' = "question"
                  /\ UNCHANGED raised
          /\ last_event' = IF ok THEN "enrich" ELSE "enrich_failed"
    /\ total_api_calls' = total_api_calls + 1
    /\ UNCHANGED <<ovars, dvars_but_pc_img, batch_size, total_pages, batch_start, idx, asked,
                   question, needs_diagram, diagrams, tiers, reply, files,
                   enriched_questions, output_written>>

\* the end of the loop of line 93
EndBatch ==
    /\ pc = "page"
    /\ idx >= Min(batch_start + batch_size, total_pages) - batch_start
    /\ batch_start' = batch_start + batch_size
    /\ pc' = "batch"
    /\ UNCHANGED <<ovars, dvars_but_pc_img, img, batch_size, total_pages, idx, pending, asked,
                   question, needs_diagram, diagrams, tiers, reply, files,
                   enriched_questions, total_api_calls, last_event, raised,
                   output_written>>

\* lines 115-141: the next question of the page and its need check
StartQuestion ==
    /\ pc = "question"
    /\ pending > 0
    /\ \E q \in Questions :
          /\ question' = q
          /\ needs_diagram' = need_check(q)
          /\ pc' = IF need_check(q) /\ snapshot_exists(files, actual_page_num)
                   THEN "tier1" ELSE "enrichment_bbox"
    /\ diagrams' = <<>>
    /\ tiers' = <<>>
    /\ reply' = "none"
    /\ UNCHANGED <<ovars, dvars_but_pc_img, img, batch_size, total_pages, batch_start, idx,
                   pending, asked, files, enriched_questions, total_api_calls,
                   last_event, raised, output_written>>

\* the end of the loop of line 115; the snapshot of the next page is
\* looked at when its questions are
EndPage ==
    /\ pc = "question"
    /\ pending = 0
    /\ idx' = idx + 1
    /\ img' = BlankPage
    /\ pc' = "page"
    /\ UNCHANGED <<ovars, dvars_but_pc_img, batch_size, total_pages, batch_start, pending,
                   asked, question, needs_diagram, diagrams, tiers, reply, files,
                   enriched_questions, total_api_calls, last_event, raised,
                   output_written>>

\* lines 142-188, Tier 1: hybrid detection; the detector may raise, and
\* the crop or save of the fail_at-th detection may raise (0: none does);
\* the except of line 184 keeps what was appended before
Tier1 ==
    /\ pc = "tier1"
    /\ \E detector_raises \in BOOLEAN :
       LET cands == IF detector_raises THEN <<>>
                    ELSE Take(high_conf_detected(detect_diagrams_hybrid(img)), 3)
       IN  \E fail_at \in 0..Len(cands) :
           LET n == IF fail_at = 0 THEN Len(cands) ELSE fail_at - 1
           IN  /\ diagrams' = diagrams \o DetectionRecords(
                                  cands, n, "ai", "hybrid_ai_detection", actual_page_num)
               /\ files' = SaveAll(files, DetectionFiles(
                                  cands, n, "ai", actual_page_num, qid, img.width, img.height))
               /\ pc' = IF tier2_guard(diagrams', needs_diagram)
                        THEN "tier2" ELSE "enrichment_bbox"
               /\ tiers' = Append(tiers, [tier |-> 1, before |-> Len(diagrams),
                                          raised |-> detector_raises \/ fail_at # 0])
    /\ UNCHANGED <<ovars, dvars_but_pc_img, img, batch_size, total_pages, batch_start, idx,
                   pending, asked, question, needs_diagram, reply,
                   enriched_questions, total_api_calls, last_event, raised,
                   output_written>>

\* lines 188-235, Tier 2: the layout detector; when a crop or save raises,
\* the except of line 226 appends a record for every diagram file of the page
Tier2 ==
    /\ pc = "tier2"
    /\ LET cands == Take(detect_diagrams_yolo(img), 3)
       IN  \E fail_at \in 0..Len(cands) :
           LET n == IF fail_at = 0 THEN Len(cands) ELSE fail_at - 1
               saved == SaveAll(files, DetectionFiles(
                            cands, n, "yolo", actual_page_num, qid, img.width, img.height))
               appended == diagrams \o DetectionRecords(
                               cands, n, "yolo", "yolov8_detection", actual_page_num)
           IN  /\ files' = saved
               /\ diagrams' = IF fail_at = 0 THEN appended
                              ELSE appended \o GlobRecords(saved, actual_page_num)
               /\ tiers' = Append(tiers, [tier |-> 2, before |-> Len(diagrams),
                                          raised |-> fail_at # 0])
    /\ pc' = "enrichment_bbox"
    /\ UNCHANGED <<ovars, dvars_but_pc_img, img, batch_size, total_pages, batch_start, idx,
                   pending, asked, question, needs_diagram, reply,
                   enriched_questions, total_api_calls, last_event, raised,
                   output_written>>

\* lines 237-279: the crop of the bbox the enrichment gave, for a question
\* without diagrams, whatever its need check; then the guard of Tier 3
EnrichmentBbox ==
    /\ pc = "enrichment_bbox"
    /\ LET page == actual_page_num
           cropping == /\ question.diagram_bbox # <<>>
                       /\ diagrams = <<>>
                       /\ snapshot_exists(files, page)
           box == bbox_crop(question.diagram_bbox[1], img.width, img.height)
           cropped == cropping /\ ~crop_raises(box)
       IN  /\ diagrams' =
                IF cropped
                THEN <<[filename |-> <<page, "gemini">>, page_number |-> page,
                        source |-> "gemini_bbox"]>>
                ELSE diagrams
           /\ files' =
                IF cropped
                THEN SaveAll(files, [name \in {<<page, "gemini">>} |->
                                        [owner |-> qid, crop |-> box]])
                ELSE files
           /\ pc' = IF tier3_guard(diagrams', needs_diagram, files, page)
                    THEN "tier3" ELSE "append"
    /\ UNCHANGED <<ovars, dvars_but_pc_img, img, batch_size, total_pages, batch_start, idx,
                   pending, asked, question, needs_diagram, tiers, reply,
                   enriched_questions, total_api_calls, last_event, raised,
                   output_written>>

\* lines 280-346 and 368, Tier 3: the localization call.  The call may
\* raise, its reply may be no JSON ("unparsable"), carry a null bbox or a
\* bbox with a confidence.
Tier3 ==
    /\ pc = "tier3"
    /\ \E outcome \in {"raised", "unparsable", "null_bbox", "bbox"},
          bbox \in ModelBboxes :
       LET page == actual_page_num
           confidence == ReplyConfidence(bbox)
           box == bbox_crop(bbox, img.width, img.height)
           located == outcome = "bbox" /\ ~crop_raises(box)
       IN  /\ (outcome # "bbox" => bbox = Bbox(100, 200, 300, 250))
           /\ reply' = outcome
           /\ diagrams' =
                IF located
                THEN <<[filename |-> <<page, "gemini_fallback">>, page_number |-> page,
                        source |-> "gemini_intelligent_fallback",
                        confidence |-> confidence, is_page_snapshot |-> FALSE]>>
                ELSE diagrams
           /\ files' =
                IF located
                THEN SaveAll(files, [name \in {<<page, "gemini_fallback">>} |->
                                        [owner |-> qid, crop |-> box]])
                ELSE files
           /\ pc' = after_localization(outcome, box)
           /\ tiers' = Append(tiers, [tier |-> 3, before |-> Len(diagrams),
                                      raised |-> ~located /\ outcome # "null_bbox"])
    /\ last_event' = "locate"
    /\ UNCHANGED <<ovars, dvars_but_pc_img, img, batch_size, total_pages, batch_start, idx,
                   pending, asked, question, needs_diagram, enriched_questions,
                   total_api_calls, raised, output_written>>

\* lines 347-366 and 368-390, Tier 4: the heuristic crop
Tier4 ==
    /\ pc = "tier4"
    /\ LET page == actual_page_num
       IN  /\ diagrams' = Append(diagrams,
                [filename |-> <<page, "fallback">>, page_number |-> page,
                 source |-> "fallback_heuristic", confidence |-> 700,
                 is_page_snapshot |-> TRUE])
           /\ files' = SaveAll(files, [name \in {<<page, "fallback">>} |->
                          [owner |-> qid, crop |-> heuristic_crop(img.width, img.height)]])
    /\ tiers' = Append(tiers, [tier |-> 4, before |-> Len(diagrams), raised |-> FALSE])
    /\ pc' = "append"
    /\ UNCHANGED <<ovars, dvars_but_pc_img, img, batch_size, total_pages, batch_start, idx,
                   pending, asked, question, needs_diagram, reply,
                   enriched_questions, total_api_calls, last_event, raised,
                   output_written>>

\* lines 393-432: the question joins the result unless it has no content.
\* The locals of the iteration are not read again: the next iteration of
\* line 115 assigns them before any use.
AppendQuestion ==
    /\ pc = "append"
    /\ enriched_questions' =
         IF question.has_content
         THEN Append(enriched_questions,
                     [page_number |-> actual_page_num, question_num |-> qid,
                      diagrams |-> diagrams])
         ELSE enriched_questions
    /\ pending' = pending - 1
    /\ asked' = asked + 1
    /\ question' = NoQuestion
    /\ needs_diagram' = FALSE
    /\ diagrams' = <<>>
    /\ tiers' = <<>>
    /\ reply' = "none"
    /\ pc' = "question"
    /\ UNCHANGED <<ovars, dvars_but_pc_img, img, batch_size, total_pages, batch_start, idx,
                   files, total_api_calls, last_event, raised, output_written>>

\* lines 436-461: the output JSON, marked processing_complete
WriteOutput ==
    /\ pc = "batch"
    /\ batch_start >= total_pages
    /\ output_written' = TRUE
    /\ pc' = "summary"
    /\ UNCHANGED <<ovars, dvars_but_pc_img, img, batch_size, total_pages, batch_start, idx,
                   pending, asked, question, needs_diagram, diagrams, tiers, reply,
                   files, enriched_questions, total_api_calls, last_event, raised>>

\* lines 500-526: the summary; line 523 divides by total_pages
Summary ==
    /\ pc = "summary"
    /\ raised' = IF total_pages = 0 THEN "ZeroDivisionError" ELSE raised
    /\ pc' = IF total_pages = 0 THEN "raised" ELSE "done"
    /\ UNCHANGED <<ovars, dvars_but_pc_img, img, batch_size, total_pages, batch_start, idx,
                   pending, asked, question, needs_diagram, diagrams, tiers, reply,
                   files, enriched_questions, total_api_calls, last_event,
                   output_written>>

\* pdf_processor.py:387-389: process_pdf appends the data of one page;
\* result is the list results
ProcessPage ==
    /\ pc = "process_page"
    /\ Len(result) < total_pages
    /\ result' = Append(result, [page_number |-> Len(result) + 1])
    /\ UNCHANGED <<ovars, call, pc, img, regions, ci, runs, cvars>>

\* pdf_processor.py:391-401: process_pdf returns results
ProcessPdfReturn ==
    /\ pc = "process_page"
    /\ Len(result) = total_pages
    /\ pc' = "returned"
    /\ UNCHANGED <<ovars, call, img, result, regions, ci, runs, cvars>>

CascadeNext ==
    \/ PdfToImages
    \/ ProcessPage
    \/ ProcessPdfReturn
    \/ NextBatch
    \/ EnrichPage
    \/ EndBatch
    \/ StartQuestion
    \/ EndPage
    \/ Tier1
    \/ Tier2
    \/ EnrichmentBbox
    \/ Tier3
    \/ Tier4
    \/ AppendQuestion
    \/ WriteOutput
    \/ Summary

SpecCascade == CascadeInit /\ [][CascadeNext]_vars

-----------------------------------------------------------------------------
(* SpecCrop: the crop rectangle of one bounding box the model supplied      *)

\* bounding boxes near the left and top edges, inside the page, reaching
\* over its right and bottom edges
CropBboxes ==
    { Bbox(x, y, w, h) : x \in {0, 20, 50, 100, 900}, y \in {0, 30, 50, 200},
                         w \in {100, 300, 2000}, h \in {100, 250} }

CropInit ==
    /\ call = "bbox_crop"
    /\ pc = "start"
    /\ \E size \in PageSizes :
          img = Image(size, TRUE, 0, <<>>, <<>>, NoScene, <<>>, <<>>)
    /\ DetectIdle
    /\ \E b \in CropBboxes :
          question = Question(FALSE, "calculation", TRUE, <<b>>, TRUE)
    /\ batch_size = 1
    /\ total_pages = 0
    /\ batch_start = 0
    /\ idx = 0
    /\ pending = 0
    /\ asked = 0
    /\ needs_diagram = FALSE
    /\ diagrams = <<>>
    /\ tiers = <<>>
    /\ reply = "none"
    /\ files = <<>>
    /\ enriched_questions = <<>>
    /\ total_api_calls = 0
    /\ last_event = "start"
    /\ raised = "none"
    /\ output_written = FALSE
    /\ OcrIdle

\* lines 245-257 (and 319-329): result holds the box handed to img.crop
CropBbox ==
    /\ pc = "start" /\ call = "bbox_crop"
    /\ result' = <<bbox_crop(question.diagram_bbox[1], img.width, img.height)>>
    /\ pc' = "returned"
    /\ UNCHANGED <<ovars, cvars, call, img, regions, ci, runs>>

CropNext == CropBbox

SpecCrop == CropInit /\ [][CropNext]_vars

-----------------------------------------------------------------------------
(* SpecOcr: the text of one page in PDFProcessor.process_page,              *)
(* app/services/pdf_processor.py:294-321                                    *)

\* lengths of the text PyMuPDF extracts from the page, around the
\* threshold of 100 characters
PdfTextLengths == {0, 20, 40, 60, 80, 99, 100, 250}

\* lengths of the text an OCR engine reads on the page
OcrTextLengths == {0, 30, 50, 70, 99, 100, 250, 600}

\* what a call gives its caller: an exception or a text
Returns(text) == [raises |-> FALSE, text |-> text]

\* gemini_ocr.py:27-61: the whole body is in a try block whose handler
\* returns ""
extract_text_from_image(fails, length) ==
    IF fails THEN Returns(Text("gemini", 0)) ELSE Returns(Text("gemini", length))

\* pdf_processor.py:90-128: likewise for Tesseract
extract_text_with_ocr(fails, length) ==
    IF fails THEN Returns(Text("tesseract", 0)) ELSE Returns(Text("tesseract", length))

\* lines 304-305, 311-312 and 316-317: the longer text, the old one on a tie
longer_text(new, old) == IF new.len > old.len THEN new ELSE old

OcrInit ==
    /\ call = "process_page"
    /\ pc = "extract_text"
    /\ img = BlankPage
    /\ DetectIdle
    /\ CascadeIdle
    /\ page_text = NoText
    /\ gemini_ocr \in BOOLEAN
    /\ ocr_log = <<>>

\* lines 294-299 and 319-321: the text of the PDF page and the test on
\* its length
ExtractTextFromPage ==
    /\ pc = "extract_text"
    /\ \E n \in PdfTextLengths :
          /\ page_text' = Text("pdf", n)
          /\ ocr_log' = <<[source |-> "pdf", failed |-> FALSE, len |-> n]>>
          /\ pc' = IF n < 100
                   THEN (IF gemini_ocr THEN "gemini_ocr" ELSE "tesseract_ocr")
                   ELSE "text_done"
    /\ UNCHANGED <<call, img, result, regions, ci, runs, cvars, gemini_ocr>>

\* lines 301-309: the Gemini OCR call in its try block; the handler of
\* line 308 goes on to Tesseract
GeminiOcr ==
    /\ pc = "gemini_ocr"
    /\ \E fails \in BOOLEAN, n \in OcrTextLengths :
          LET r == extract_text_from_image(fails, n)
          IN  /\ (fails => n = 0)
              /\ page_text' = IF r.raises THEN page_text
                              ELSE longer_text(r.text, page_text)
              /\ pc' = IF r.raises THEN "tesseract_ocr" ELSE "text_done"
              /\ ocr_log' = Append(ocr_log,
                                [source |-> "gemini", failed |-> fails, len |-> r.text.len])
    /\ UNCHANGED <<call, img, result, regions, ci, runs, cvars, gemini_ocr>>

\* lines 310-313 (after the handler) and 314-318 (without Gemini)
TesseractOcr ==
    /\ pc = "tesseract_ocr"
    /\ \E fails \in BOOLEAN, n \in OcrTextLengths :
          LET r == extract_text_with_ocr(fails, n)
          IN  /\ (fails => n = 0)
              /\ page_text' = longer_text(r.text, page_text)
              /\ ocr_log' = Append(ocr_log,
                                [source |-> "tesseract", failed |-> fails, len |-> r.text.len])
    /\ pc' = "text_done"
    /\ UNCHANGED <<call, img, result, regions, ci, runs, cvars, gemini_ocr>>

OcrNext ==
    \/ ExtractTextFromPage
    \/ GeminiOcr
    \/ TesseractOcr

SpecOcr == OcrInit /\ [][OcrNext]_vars

-----------------------------------------------------------------------------
(* Claims about the detectors, checked under SpecDetect                     *)

Returned(f) == pc = "returned" /\ call = f

PairwiseOverlapAtMostHalfOfSmaller(kept) ==
    \A i, j \in 1..Len(kept) :
        i # j => 2 * overlap_area(kept[i], kept[j]) <= Min(kept[i].area, kept[j].area)

\* C3: in the list detect_diagrams_hybrid returns, the bbox intersection of
\* any two kept candidates is at most half the area of the smaller one.
C3_HybridKeptOverlap ==
    Returned("detect_diagrams_hybrid") => PairwiseOverlapAtMostHalfOfSmaller(result)

\* two kept candidates overlap, and the pass suppressed a candidate
C3_Witness ==
    /\ Returned("detect_diagrams_hybrid")
    /\ Len(result) < Len(hybrid_raw(img))
    /\ \E i, j \in 1..Len(result) : i # j /\ overlap_area(result[i], result[j]) > 0

\* C4: in the list AdvancedLayoutDetector.detect_diagrams returns, the bbox
\* intersection of any two kept candidates is at most half the area of the
\* smaller one.
C4_LayoutKeptOverlap ==
    Returned("detect_diagrams") => PairwiseOverlapAtMostHalfOfSmaller(result)

\* the raw list of end-to-end scenario 3: two candidates of areas 50000 and
\* 30000 that overlap by 20000 px and differ in confidence
Scenario3(raw) ==
    /\ Len(raw) = 2
    /\ {raw[1].area, raw[2].area} = {50000, 30000}
    /\ overlap_area(raw[1], raw[2]) = 20000
    /\ raw[1].confidence # raw[2].confidence

HigherConfidence(raw) ==
    IF raw[1].confidence > raw[2].confidence THEN raw[1] ELSE raw[2]

\* C5: on the two candidates of scenario 3 the overlap pass of either
\* detector keeps exactly one candidate, the one of higher confidence.
C5_Scenario3KeepsHigherConfidence ==
    /\ (Returned("detect_diagrams_hybrid") /\ Scenario3(hybrid_raw(img)))
           => result = <<HigherConfidence(hybrid_raw(img))>>
    /\ (Returned("detect_diagrams") /\ img.readable /\ Scenario3(layout_raw(img)))
           => result = <<HigherConfidence(layout_raw(img))>>

\* The classification policy of the specification, on the measurements of
\* one contour: area, aspectRatio = w/h, edgeDensity = edge_pixels/area
\* and fillRatio = contourArea/area.
PolicyDiscarded(c) == c.w * c.h < 2000
PolicyDiagram(c) ==
    /\ ~PolicyDiscarded(c)
    /\ c.w * c.h > 10000
    /\ 10 * c.w > 2 * c.h /\ 10 * c.w < 40 * c.h
    /\ 1000 * c.edge_pixels > 5 * c.w * c.h
    /\ 100 * c.contour_area2 < 2 * 95 * c.w * c.h
PolicyText(c) == ~PolicyDiscarded(c) /\ ~PolicyDiagram(c) /\ 10 * c.w > 30 * c.h
PolicyMixed(c) == ~PolicyDiscarded(c) /\ ~PolicyDiagram(c) /\ ~PolicyText(c)

PolicyList(c, name) ==
    CASE name = "diagram_blocks" -> PolicyDiagram(c)
      [] name = "text_blocks" -> PolicyText(c)
      [] name = "mixed_blocks" -> PolicyMixed(c)

\* the regions of the first n contours the policy puts in the list name
RECURSIVE PolicyRegions(_, _, _)
PolicyRegions(contours, n, name) ==
    IF n = 0 THEN <<>>
    ELSE PolicyRegions(contours, n - 1, name)
             \o (IF PolicyList(contours[n], name)
                 THEN <<region_info(contours[n])>> ELSE <<>>)

\* C8: detect_regions classifies each contour by the ordered policy
\* (discarded, else diagram, else text, else mixed; first match wins): after
\* any number of iterations each list holds exactly the contours the
\* policy puts there, so a contour with aspectRatio in (3, 4) that meets the
\* diagram conditions is in diagram_blocks.
C8_ClassificationPolicy ==
    (call = "detect_regions" /\ pc = "classify") =>
        \A name \in DOMAIN regions :
            regions[name] = PolicyRegions(img.contours, ci - 1, name)

\* a contour with aspectRatio in (3, 4) that meets the diagram conditions
\* has been classified
C8_Witness ==
    /\ call = "detect_regions" /\ pc = "classify" /\ ci > 1
    /\ LET c == img.contours[ci - 1]
       IN  /\ c.w > 3 * c.h /\ c.w < 4 * c.h /\ PolicyDiagram(c)
           /\ regions.diagram_blocks # <<>>

Count(s, e) == Cardinality({k \in 1..Len(s) : s[k] = e})

\* regions classified from contours (not the one the Hough fallback adds)
FromContours(s) == SelectSeq(s, LAMBDA r : "detected_via" \notin DOMAIN r)

\* every contour of area >= 2000 is in exactly one list, smaller ones in none
TotalClassification(r) ==
    /\ \A k \in 1..Len(img.contours) :
          LET c == img.contours[k]
              info == region_info(c)
              same == Cardinality({m \in 1..Len(img.contours) :
                                      region_info(img.contours[m]) = info})
          IN  Count(r.text_blocks, info) + Count(FromContours(r.diagram_blocks), info)
                  + Count(r.mixed_blocks, info)
                  = IF c.w * c.h >= 2000 THEN same ELSE 0
    /\ Len(r.text_blocks) + Len(FromContours(r.diagram_blocks)) + Len(r.mixed_blocks)
          = Cardinality({k \in 1..Len(img.contours) :
                            img.contours[k].w * img.contours[k].h >= 2000})

RegionAreaMatchesBbox(r) ==
    /\ r.bbox.width > 0 /\ r.bbox.height > 0
    /\ r.area = r.bbox.width * r.bbox.height

CandidateAreaMatchesBbox(d) ==
    /\ d.bbox[3] - d.bbox[1] > 0 /\ d.bbox[4] - d.bbox[2] > 0
    /\ d.area = (d.bbox[3] - d.bbox[1]) * (d.bbox[4] - d.bbox[2])

\* C10: every region detect_regions returns (the Hough region included)
\* and every candidate the hybrid and layout detectors return has
\* area = width * height of its bbox, with width > 0 and height > 0.
C10_AreaIsWidthTimesHeight ==
    /\ \A name \in DOMAIN regions :
          \A k \in 1..Len(regions[name]) : RegionAreaMatchesBbox(regions[name][k])
    /\ \A k \in 1..Len(result) : CandidateAreaMatchesBbox(result[k])

\* detect_regions has returned a region of the Hough fallback whose
\* envelope was clamped to the image
C10_Witness ==
    /\ call = "detect_regions" /\ runs # <<>>
    /\ \E k \in 1..Len(runs[1].diagram_blocks) :
          /\ "detected_via" \in DOMAIN runs[1].diagram_blocks[k]
          /\ runs[1].diagram_blocks[k].bbox.x = 0

-----------------------------------------------------------------------------
(* Claims about the cascade, checked under SpecCascade                      *)

\* the numbers of the tiers that have run for the question, in order
TiersRun == [i \in DOMAIN tiers |-> tiers[i].tier]

\* the question under the cascade has been through all its steps
CascadeFinished == call = "enriched_batch_process_pdf" /\ pc = "append"

\* C1: for every question, the tiers that run do so in the order hybrid
\* detection (1), alternate layout detector (2), model-assisted localization
\* (3), heuristic crop (4), none of them twice, and each of them finds the
\* question's diagram list empty when it starts.
C1_TiersInOrderOnEmptyList ==
    /\ \A i \in DOMAIN tiers : tiers[i].tier \in 1..4 /\ tiers[i].before = 0
    /\ \A i, j \in DOMAIN tiers : i < j => tiers[i].tier < tiers[j].tier

\* all four tiers ran for one question
C1_Witness == CascadeFinished /\ TiersRun = <<1, 2, 3, 4>>

\* C2: every question whose need check is true finishes the cascade with at
\* least one diagram record, whatever the detectors, the external model and
\* the save of the page snapshot did.
C2_NeedyQuestionGetsDiagram ==
    (CascadeFinished /\ needs_diagram) => diagrams # <<>>

\* the preconditions of C6: a question that needs a diagram, for which
\* Tier 1 and Tier 2 ran and kept nothing, without a diagram_bbox from
\* the enrichment, and a localization reply with a null bbox
NullBboxCase ==
    /\ CascadeFinished
    /\ needs_diagram
    /\ question.diagram_bbox = <<>>
    /\ reply = "null_bbox"

\* C6: in the null-bbox case the question has exactly one record, of source
\* fallback_heuristic and confidence 70.0, and its file holds the band of
\* the page from a quarter to three quarters of its height (in whole
\* pixels: it starts at floor(height / 4) and is floor(height / 2) high)
\* over the full width.
C6_NullBboxGivesHeuristicBand ==
    NullBboxCase =>
        /\ Len(diagrams) = 1
        /\ diagrams[1].source = "fallback_heuristic"
        /\ diagrams[1].confidence = 700
        /\ diagrams[1].filename \in DOMAIN files
        /\ LET crop == files[diagrams[1].filename].crop
           IN  /\ files[diagrams[1].filename].owner = qid
               /\ crop[1] = 0
               /\ crop[3] = img.width
               /\ 4 * crop[2] <= img.height
               /\ img.height < 4 * (crop[2] + 1)
               /\ 2 * (crop[4] - crop[2]) <= img.height
               /\ img.height < 2 * (crop[4] - crop[2] + 1)

\* the null-bbox case on a page whose height is not a multiple of four
C6_Witness == NullBboxCase /\ img.height = 1403 /\ TiersRun = <<1, 2, 3, 4>>

\* the localization call raised, or its reply was no JSON
LocalizationFailed == CascadeFinished /\ reply \in {"raised", "unparsable"}

-----------------------------------------------------------------------------
(* Further claims about the detectors, checked under SpecDetect             *)

FewRowsOrColumns(c) == Len(c.y_coords) < 3 \/ Len(c.x_coords) < 3

\* C12: Method 1 emits no candidate for a cluster with fewer than 3
\* distinct rows or fewer than 3 distinct columns, and every
\* grid_intersection candidate detect_diagrams_hybrid returns is the
\* rectangle of a cluster with at least 3 of each.
C12_GridNeedsThreeRowsAndColumns ==
    Returned("detect_diagrams_hybrid") =>
        /\ \A k \in 1..Len(img.clusters) :
              FewRowsOrColumns(img.clusters[k])
                  => grid_intersection_candidate(img.clusters[k]) = <<>>
        /\ \A k \in 1..Len(result) :
              result[k].source = "grid_intersection" =>
                  \E j \in 1..Len(img.clusters) :
                      LET c == img.clusters[j]
                      IN  /\ result[k].bbox = <<c.x, c.y, c.x + c.w, c.y + c.h>>
                          /\ ~FewRowsOrColumns(c)

\* a cluster of two rows that passes every other test of Method 1 (points,
\* area, spacing) and is rejected
C12_Witness ==
    /\ Returned("detect_diagrams_hybrid")
    /\ \E k \in 1..Len(img.clusters) :
          LET c == img.clusters[k]
          IN  /\ Len(c.y_coords) = 2 /\ Len(c.x_coords) >= 3
              /\ c.points >= 9 /\ c.w * c.h > 10000
              /\ cv_below_2(Diff(c.y_coords)) /\ MeanAbove(Diff(c.y_coords), 5)
              /\ cv_below_2(Diff(c.x_coords)) /\ MeanAbove(Diff(c.x_coords), 5)
    /\ \A k \in 1..Len(result) : result[k].source # "grid_intersection"

\* the list kept is in order of descending confidence, equal confidences
\* in order of descending area
ByConfidenceThenArea(kept) ==
    \A i, j \in 1..Len(kept) :
        i < j => \/ kept[i].confidence > kept[j].confidence
                 \/ /\ kept[i].confidence = kept[j].confidence
                    /\ kept[i].area >= kept[j].area

\* C20: the list the overlap pass of detect_diagrams_hybrid and of
\* AdvancedLayoutDetector.detect_diagrams returns is in the order the pass
\* visited the candidates: descending confidence, ties by descending area.
C20_KeptByConfidenceThenArea ==
    /\ Returned("detect_diagrams_hybrid") => ByConfidenceThenArea(result)
    /\ Returned("detect_diagrams") => ByConfidenceThenArea(result)

-----------------------------------------------------------------------------
(* Further claims about the cascade, checked under SpecCascade              *)

\* the records of source src among the records ds
FromSource(ds, src) ==
    SelectSeq(ds, LAMBDA d : "source" \in DOMAIN d /\ d.source = src)

\* Tier 1 has just run: the cascade is at the guard of Tier 2
JustAfterTier1 ==
    /\ call = "enriched_batch_process_pdf"
    /\ Len(tiers) = 1 /\ tiers[1].tier = 1
    /\ pc \in {"tier2", "enrichment_bbox"}

\* C13: every record Tier 1 attaches has a confidence above 85 (850
\* tenths), for the question under the cascade and in the result; and when
\* hybrid detection returned nothing above 85, Tier 1 attaches no record
\* and Tier 2 runs next.
C13_Tier1KeepsAbove85 ==
    /\ \A k \in 1..Len(diagrams) :
          ("source" \in DOMAIN diagrams[k] /\ diagrams[k].source = "hybrid_ai_detection")
              => diagrams[k].confidence > 850
    /\ \A q \in 1..Len(enriched_questions) :
          \A k \in 1..Len(enriched_questions[q].diagrams) :
              LET d == enriched_questions[q].diagrams[k]
              IN  ("source" \in DOMAIN d /\ d.source = "hybrid_ai_detection")
                      => d.confidence > 850
    /\ JustAfterTier1 =>
          LET detected == detect_diagrams_hybrid(img)
          IN  (\A k \in 1..Len(detected) : detected[k].confidence <= 850)
                  => diagrams = <<>> /\ pc = "tier2"

\* hybrid detection returned a candidate at exactly 85.0 and none above,
\* Tier 1 kept nothing and Tier 2 is next
C13_Witness ==
    /\ JustAfterTier1
    /\ ~tiers[1].raised
    /\ diagrams = <<>>
    /\ pc = "tier2"
    /\ LET detected == detect_diagrams_hybrid(img)
       IN  \E k \in 1..Len(detected) : detected[k].confidence = 850

\* the run is one of the two entry points that rasterize a PDF
ProcessingCall == call \in {"enriched_batch_process_pdf", "process_pdf"}

\* C14: a PDF that cannot be opened or has no pages is fatal for both
\* process_pdf and enriched_batch_process_pdf: the call never returns a
\* result (an empty list included), never finishes normally and never
\* writes the output JSON marked processing_complete.
C14_BadPdfIsFatal ==
    (ProcessingCall /\ total_pages = 0) =>
        /\ ~output_written
        /\ pc \notin {"returned", "done"}

\* the records a tier contributed to ds: Tier 2 also appends the records
\* without a source of its exception handler
TierRecords(ds, tier) ==
    IF tier = 1 THEN FromSource(ds, "hybrid_ai_detection")
    ELSE SelectSeq(ds, LAMBDA d : "source" \notin DOMAIN d \/ d.source = "yolov8_detection")

\* C15: when Tier 1 or Tier 2 raised for a question (in detection, or in
\* cropping or saving), no exception leaves the call, the question holds no
\* record of that tier, and the next tier has run: Tier 2 after Tier 1,
\* the localization after Tier 2 (for a question whose enrichment named no
\* diagram_bbox).
C15_FailedTierProducesNothing ==
    CascadeFinished =>
        \A i \in DOMAIN tiers :
            (tiers[i].raised /\ tiers[i].tier \in {1, 2}) =>
                /\ raised = "none"
                /\ TierRecords(diagrams, tiers[i].tier) = <<>>
                /\ (tiers[i].tier = 1 \/ question.diagram_bbox = <<>>)
                       => \E j \in DOMAIN tiers : tiers[j].tier = tiers[i].tier + 1

\* the files the question under the cascade has written
FilesOfQuestion == {name \in DOMAIN files : files[name].owner = qid}

\* C16: a question whose need check is false goes through no tier, writes
\* no crop file and ends with an empty diagram list, whatever its
\* enrichment holds.
C16_NoCascadeWithoutNeed ==
    (CascadeFinished /\ ~needs_diagram) =>
        /\ tiers = <<>>
        /\ FilesOfQuestion = {}
        /\ diagrams = <<>>

\* C18: a question leaves the cascade with at most 3 diagram records, and
\* no question of the result holds more, on every path through the tiers.
C18_AtMostThreeRecords ==
    /\ CascadeFinished => Len(diagrams) <= 3
    /\ \A q \in 1..Len(enriched_questions) : Len(enriched_questions[q].diagrams) <= 3

\* a record with a source tag and a confidence value
HasSourceAndConfidence(d) == {"source", "confidence"} \subseteq DOMAIN d

\* C19: every diagram record of the question that leaves the cascade, and
\* of every question of the result, has a source tag and a confidence.
C19_RecordsCarrySourceAndConfidence ==
    /\ CascadeFinished =>
          \A k \in 1..Len(diagrams) : HasSourceAndConfidence(diagrams[k])
    /\ \A q \in 1..Len(enriched_questions) :
          \A k \in 1..Len(enriched_questions[q].diagrams) :
              HasSourceAndConfidence(enriched_questions[q].diagrams[k])

-----------------------------------------------------------------------------
(* A claim about the crop of a model bounding box, checked under SpecCrop   *)

\* C17: the crop rectangle of a model bounding box lies inside the image,
\* reaches at most 50 px beyond the bbox on each of its four sides, and is
\* the bbox grown by 50 px on every side cut to the image.
C17_CropIsPaddedBboxInImage ==
    Returned("bbox_crop") =>
        LET b == question.diagram_bbox[1]
            box == result[1]
        IN  /\ 0 <= box[1] /\ box[1] <= box[3] /\ box[3] <= img.width
            /\ 0 <= box[2] /\ box[2] <= box[4] /\ box[4] <= img.height
            /\ b.x - box[1] <= 50 /\ box[3] - (b.x + b.width) <= 50
            /\ b.y - box[2] <= 50 /\ box[4] - (b.y + b.height) <= 50
            /\ box = <<Max(0, b.x - 50), Max(0, b.y - 50),
                       Min(img.width, b.x + b.width + 50),
                       Min(img.height, b.y + b.height + 50)>>

-----------------------------------------------------------------------------
(* Claims about what the tiers run, checked under SpecCascade               *)

\* the candidates of more than 85 that the morphological and blob detectors
\* keep on the page and that touch no candidate of hybrid detection (so
\* that no overlap pass over both lists could drop them)
LayoutOnlyAbove85(i) ==
    SelectSeq(detect_diagrams(i),
              LAMBDA d : /\ d.confidence > 850
                         /\ \A k \in 1..Len(hybrid_raw(i)) :
                               overlap_area(d, hybrid_raw(i)[k]) = 0)

\* Tier 1 wrote the crop of the candidate d for the question under the cascade
PersistedByTier1(d) ==
    \E k \in 1..Len(diagrams) :
        /\ "source" \in DOMAIN diagrams[k]
        /\ diagrams[k].source = "hybrid_ai_detection"
        /\ diagrams[k].filename \in DOMAIN files
        /\ files[diagrams[k].filename].crop = pad_crop(d.bbox, img.width, img.height)

\* C21: Tier 1 persists every morphological_analysis or blob_detection
\* candidate of confidence above 85 that survives overlap suppression, as
\* it does the contour-density and grid candidates.
C21_Tier1PersistsLayoutCandidates ==
    (JustAfterTier1 /\ ~tiers[1].raised) =>
        LET above == LayoutOnlyAbove85(img)
        IN  \A k \in 1..Min(Len(above), 3) : PersistedByTier1(above[k])

\* Tier 2 has just run for the question under the cascade
JustAfterTier2 ==
    /\ call = "enriched_batch_process_pdf"
    /\ pc = "enrichment_bbox"
    /\ tiers # <<>> /\ tiers[Len(tiers)].tier = 2

\* the record d and its file are those of a candidate detect_with_layout_analysis
\* produced on the page
FromLayoutAnalysis(d) ==
    \E k \in 1..Len(detect_with_layout_analysis(img)) :
        LET c == detect_with_layout_analysis(img)[k]
        IN  /\ c.source = "layout_analysis"
            /\ d.confidence = c.confidence
            /\ d.area = c.area
            /\ d.filename \in DOMAIN files
            /\ files[d.filename].crop = pad_crop(c.bbox, img.width, img.height)

\* C22: every diagram Tier 2 persists was produced by
\* detect_with_layout_analysis: its confidence is at most 85 and its area
\* lies between 15000 and 400000.
C22_Tier2PersistsLayoutAnalysis ==
    JustAfterTier2 =>
        \A k \in 1..Len(diagrams) :
            ("source" \in DOMAIN diagrams[k] /\ diagrams[k].source = "yolov8_detection") =>
                /\ diagrams[k].confidence <= 850
                /\ diagrams[k].area > 15000 /\ diagrams[k].area < 400000
                /\ FromLayoutAnalysis(diagrams[k])

-----------------------------------------------------------------------------
(* A further claim about detect_regions, checked under SpecDetect           *)

\* the classification of the contours of the page put a region in diagram_blocks
ClassifiedADiagram ==
    \E k \in 1..Len(img.contours) : "diagram_blocks" \in classify(img.contours[k])

\* the regions tagged detected_via = 'hough' among the diagram blocks of a run
HoughRegions(run) ==
    SelectSeq(run.diagram_blocks, LAMBDA r : "detected_via" \in DOMAIN r)

\* width and height of the envelope of the end points of the lines, padded
\* by 40 px and clamped to the image
PaddedEnvelope(lines, width, height) ==
    LET xs == {lines[k][1] : k \in 1..Len(lines)} \cup {lines[k][3] : k \in 1..Len(lines)}
        ys == {lines[k][2] : k \in 1..Len(lines)} \cup {lines[k][4] : k \in 1..Len(lines)}
        lo_x == CHOOSE m \in xs : \A v \in xs : m <= v
        hi_x == CHOOSE m \in xs : \A v \in xs : m >= v
        lo_y == CHOOSE m \in ys : \A v \in ys : m <= v
        hi_y == CHOOSE m \in ys : \A v \in ys : m >= v
    IN  <<Min(hi_x + 40, width) - Max(lo_x - 40, 0),
          Min(hi_y + 40, height) - Max(lo_y - 40, 0)>>

\* at least 5 lines whose envelope is large enough
EnoughLines(lines, width, height) ==
    /\ Len(lines) >= 5
    /\ LET e == PaddedEnvelope(lines, width, height)
       IN  e[1] * e[2] > 8000 /\ e[1] > 100 /\ e[2] > 100

\* C23: the Hough fallback of detect_regions appends nothing when the
\* classification found a diagram region; otherwise it appends exactly one
\* region tagged detected_via = 'hough' whenever the Hough transform gave
\* at least 5 lines (exactly 5 included) whose envelope, padded by 40 px
\* and clamped to the image, has area > 8000 and both sides > 100 px.
C23_HoughFallbackFromFiveLines ==
    call = "detect_regions" =>
        \A k \in 1..Len(runs) :
            /\ ClassifiedADiagram => HoughRegions(runs[k]) = <<>>
            /\ (~ClassifiedADiagram /\ EnoughLines(img.lines, img.width, img.height))
                   => Len(HoughRegions(runs[k])) = 1

-----------------------------------------------------------------------------
(* A claim about a failing grid detector, checked under SpecDetect          *)

\* what detect_diagrams_hybrid would return from the contour-density
\* candidates of the page alone
ContourDensityOnly(i) ==
    RemoveOverlapping(
        hybrid_sort(contour_density_candidates(i.contours, i.width, i.height, i.threshold)),
        <<>>)

\* C24: when the grid detector raises inside detect_diagrams_hybrid (for
\* example while writing its debug images), the call still returns, and it
\* returns the contour-density candidates of the page.
C24_GridFailureKeepsContourCandidates ==
    (call = "detect_diagrams_hybrid" /\ raised = "detect_coordinate_grids") =>
        /\ pc = "returned"
        /\ result = ContourDensityOnly(img)

-----------------------------------------------------------------------------
(* Claims about the calls to the external model, checked under SpecCascade  *)

\* a step in which enriched_batch_process_pdf calls the external model: the
\* enrichment of a page (line 101) or the localization of a diagram (line 305)
ModelCallStep ==
    /\ call = "enriched_batch_process_pdf"
    /\ \/ pc = "page" /\ pc' = "question"
       \/ pc = "tier3"

\* C25: every call to the external model other than the first comes right
\* after a rate-limit sleep: since the previous model call the function
\* has slept, so no two model calls happen back to back.
C25_ModelCallsSeparatedBySleep ==
    [][ModelCallStep => last_event \in {"start", "sleep"}]_vars

\* ceil(p / b) for b > 0
CeilDiv(p, b) == (p + b - 1) \div b

\* C26: when the output is written, the number of enrichment calls made,
\* which the output reports as api_calls_used, is ceil(P / batch_size) for
\* a PDF of P pages.
C26_OneEnrichmentCallPerBatch ==
    (call = "enriched_batch_process_pdf" /\ output_written) =>
        total_api_calls = CeilDiv(total_pages, batch_size)

\* the enrichment call for the page under processing failed
EnrichmentFailed ==
    /\ call = "enriched_batch_process_pdf"
    /\ last_event = "enrich_failed"

\* the questions of the result that come from page p
QuestionsOfPage(p) ==
    SelectSeq(enriched_questions, LAMBDA q : q.page_number = p)

\* C27: a failed enrichment call (it raised, or no parser accepts its
\* reply) raises nothing in enriched_batch_process_pdf; the page has no
\* question to go through and contributes none to the result; and the
\* loop goes on: a call that finishes has sent every page of the PDF to
\* the enrichment.
C27_FailedEnrichmentSkipsThePage ==
    /\ EnrichmentFailed =>
          /\ raised = "none"
          /\ pc \in {"question", "page", "batch", "summary", "done"}
          /\ pending = 0
          /\ pc = "question" => QuestionsOfPage(actual_page_num) = <<>>
    /\ (call = "enriched_batch_process_pdf" /\ pc \in {"summary", "done"})
          => total_api_calls = total_pages

\* the enrichment of page 1 failed, the result has no question, and the
\* loop stands at page 2 of the same batch, which it will send next
C27_Witness ==
    /\ EnrichmentFailed
    /\ pc = "page"
    /\ batch_start + idx + 1 = 2
    /\ total_pages = 2 /\ batch_size = 2
    /\ total_api_calls = 1
    /\ enriched_questions = <<>>

-----------------------------------------------------------------------------
(* A claim about the OCR fallback of process_page, checked under SpecOcr    *)

\* the entries of the log for the text source src
LogOf(src) == SelectSeq(ocr_log, LAMBDA e : e.source = src)

\* the text of the page is settled
TextDone == call = "process_page" /\ pc = "text_done"

\* C28: when the PDF gave fewer than 100 characters and a GeminiOCR
\* instance is set, Gemini OCR is tried first, Tesseract runs only after
\* it, and a failed Gemini OCR call is followed by a Tesseract run.
C28_GeminiFailureFallsBackToTesseract ==
    (TextDone /\ gemini_ocr /\ ocr_log[1].len < 100) =>
        /\ Len(ocr_log) >= 2 /\ ocr_log[2].source = "gemini"
        /\ ocr_log[2].failed => LogOf("tesseract") # <<>>

-----------------------------------------------------------------------------
(* A claim about the crop files of the result, checked under SpecCascade    *)

\* C29: when enriched_batch_process_pdf finishes, the file named by every
\* diagram record of the result was last written for the record's own
\* question: no crop written for a later question has replaced it.
C29_FilesHoldTheirOwnCrop ==
    (call = "enriched_batch_process_pdf" /\ pc = "done") =>
        \A q \in 1..Len(enriched_questions) :
            \A k \in 1..Len(enriched_questions[q].diagrams) :
                LET d == enriched_questions[q].diagrams[k]
                IN  /\ d.filename \in DOMAIN files
                    /\ files[d.filename].owner = enriched_questions[q].question_num

-----------------------------------------------------------------------------
(* A claim about suppressed candidates, checked under SpecCascade           *)

\* the raw candidate list of hybrid detection holds a candidate above 85
RawAbove85(i) ==
    \E k \in 1..Len(hybrid_raw(i)) : hybrid_raw(i)[k].confidence > 850

=============================================================================
